---- MODULE Spec2Model ----
(***************************************************************************)
(* Customer booking dashboard: the App component's state (record store,   *)
(* loading flag, filter selection, theme, 2D/3D view), its load effect    *)
(* with the parse of the text, its two theme effects over localStorage,   *)
(* the export, the reload of the page, the facets, the filter engine, the *)
(* stat cards and the four ChartPanel aggregations.                       *)
(*                                                                         *)
(* A row is a JavaScript object whose values are strings; it is modelled  *)
(* as a function from the field names it HAS to strings, so that a        *)
(* missing field (undefined) and an empty field ("") stay different.      *)
(* A JavaScript number is [kind, v]: kind "fin" with the integer v, or    *)
(* "nan", or "inf".  Averages carry v in tenths (15.0 is v = 150).        *)
(***************************************************************************)
EXTENDS Integers, Sequences, FiniteSets, TLC

(***************************************************************************)
(* Bounds of the model.                                                    *)
(***************************************************************************)
\* longest dataset drawn from RowPool
MaxRows == 3
\* most distinct routes heading a wide dataset (above both slice limits)
MaxWide == 13
\* most rows that follow the distinct-route head of a wide dataset
MaxTail == 2
\* most lines that follow the header of a text
MaxLines == 2
\* most reloads of the page
MaxReloads == 1

(***************************************************************************)
(* Program constants.                                                      *)
(***************************************************************************)
\* .slice(0, 10) of topRoutes
TopRoutesLimit == 10
\* .slice(0,12) of avgLeadByRoute
AvgLeadLimit == 12

(***************************************************************************)
(* Small sequence helpers.                                                 *)
(***************************************************************************)
Take(s, n) == SubSeq(s, 1, IF Len(s) < n THEN Len(s) ELSE n)

RECURSIVE SeqsUpTo(_, _)
SeqsUpTo(S, n) ==
  IF n = 0 THEN {<<>>}
  ELSE LET shorter == SeqsUpTo(S, n - 1)
       IN  shorter \cup {Append(s, x) : s \in {t \in shorter : Len(t) = n - 1}, x \in S}

(***************************************************************************)
(* JavaScript values.                                                      *)
(***************************************************************************)
Has(r, f) == f \in DOMAIN r

\* r.f || dflt : undefined and "" are falsy
OrDefault(r, f, dflt) == IF Has(r, f) /\ r[f] # "" THEN r[f] ELSE dflt

\* r.f ?? dflt : only undefined (null) is replaced
NullishDefault(r, f, dflt) == IF Has(r, f) THEN r[f] ELSE dflt

Fin(n) == [kind |-> "fin", v |-> n]
NaN == [kind |-> "nan", v |-> 0]
Infinity == [kind |-> "inf", v |-> 0]

\* Number(s) on the strings of the model: decimal literals convert to their
\* value, the empty string to 0, "Infinity" to Infinity, anything else to NaN
ToNumber(s) ==
  CASE s = ""         -> Fin(0)
    [] s = "0"        -> Fin(0)
    [] s = "1"        -> Fin(1)
    [] s = "2"        -> Fin(2)
    [] s = "3"        -> Fin(3)
    [] s = "5"        -> Fin(5)
    [] s = "7"        -> Fin(7)
    [] s = "10"       -> Fin(10)
    [] s = "20"       -> Fin(20)
    [] s = "Infinity" -> Infinity
    [] OTHER          -> NaN

\* a + b on numbers: NaN absorbs, then Infinity
NumAdd(a, b) ==
  IF a.kind = "nan" \/ b.kind = "nan" THEN NaN
  ELSE IF a.kind = "inf" \/ b.kind = "inf" THEN Infinity
  ELSE Fin(a.v + b.v)

\* x || 0 on a number: NaN and 0 are falsy
NumOrZero(x) == IF x.kind = "nan" THEN Fin(0) ELSE x

\* the integer n for which n/10 is closest to num/den (num >= 0, den > 0),
\* the larger n on a tie: Number.prototype.toFixed(1), in tenths
RoundTenths(num, den) == (20 * num + den) \div (2 * den)

\* the digits toFixed(1) writes for a value given in tenths
TenthsToString(t) == ToString(t \div 10) \o "." \o ToString(t % 10)

\* (a / n).toFixed(1) for a number a and a count n > 0
DivToFixed1(a, n) ==
  CASE a.kind = "nan" -> "NaN"
    [] a.kind = "inf" -> "Infinity"
    [] OTHER          -> TenthsToString(RoundTenths(a.v, n))

\* +(a / n).toFixed(1): the rounded quotient as a number, v in tenths
DivRounded1(a, n) ==
  CASE a.kind = "nan" -> NaN
    [] a.kind = "inf" -> Infinity
    [] OTHER          -> Fin(RoundTenths(a.v, n))

(***************************************************************************)
(* Property order of a plain object: keys that are canonical array        *)
(* indices come first, in ascending numeric order, then the other string  *)
(* keys in insertion order.  An object is kept as its sequence of         *)
(* [k, v] pairs in insertion order; ObjectEntries gives the order that    *)
(* Object.entries enumerates.                                             *)
(***************************************************************************)
\* the array index a key denotes, or -1 when it is no canonical index
ArrayIndex(k) ==
  CASE k = "0"  -> 0
    [] k = "1"  -> 1
    [] k = "2"  -> 2
    [] k = "3"  -> 3
    [] k = "5"  -> 5
    [] k = "7"  -> 7
    [] k = "10" -> 10
    [] k = "20" -> 20
    [] OTHER    -> -1

IsArrayIndex(k) == ArrayIndex(k) >= 0

KeyPos(obj, k) ==
  IF \E i \in 1..Len(obj) : obj[i].k = k
  THEN CHOOSE i \in 1..Len(obj) : obj[i].k = k
  ELSE 0

IndexEntry(e) == IsArrayIndex(e.k)
NamedEntry(e) == ~IsArrayIndex(e.k)
IndexBefore(a, b) == ArrayIndex(a.k) < ArrayIndex(b.k)

\* a bug: the entries taken in insertion order
ObjectEntriesInserted(obj) == obj

ObjectEntries(obj) ==
  SortSeq(SelectSeq(obj, IndexEntry), IndexBefore) \o SelectSeq(obj, NamedEntry)

\* a bug: a key seen again is set to 1 instead of counted up
IncrementReset(obj, k) ==
  LET p == KeyPos(obj, k)
  IN  IF p = 0 THEN Append(obj, [k |-> k, v |-> 1])
      ELSE [obj EXCEPT ![p].v = 1]

\* obj[k] = (obj[k] || 0) + 1
Increment(obj, k) ==
  LET p == KeyPos(obj, k)
  IN  IF p = 0 THEN Append(obj, [k |-> k, v |-> 1])
      ELSE [obj EXCEPT ![p].v = @ + 1]

(***************************************************************************)
(* Route names (utils/routeMapping.ts).  "->" stands for the arrow U+2192 *)
(* of the source's display names.                                         *)
(***************************************************************************)
RouteCodes ==
  << "AKLDEL", "AKLHGH", "AKLHND", "AKLICN", "AKLKIX", "AKLKTM", "AKLKUL",
     "AKLNRT", "AKLPVG", "AKLSIN", "AKLTPE", "MELBKK", "MELDEL", "MELHKG",
     "MELSIN", "SYDBKK", "SYDDEL", "SYDHKG", "SYDSIN" >>

RouteDisplay ==
  << "Auckland -> Delhi", "Auckland -> Hangzhou", "Auckland -> Tokyo (Haneda)",
     "Auckland -> Seoul (Incheon)", "Auckland -> Osaka (Kansai)",
     "Auckland -> Kathmandu", "Auckland -> Kuala Lumpur",
     "Auckland -> Tokyo (Narita)", "Auckland -> Shanghai",
     "Auckland -> Singapore", "Auckland -> Taipei", "Melbourne -> Bangkok",
     "Melbourne -> Delhi", "Melbourne -> Hong Kong", "Melbourne -> Singapore",
     "Sydney -> Bangkok", "Sydney -> Delhi", "Sydney -> Hong Kong",
     "Sydney -> Singapore" >>

\* ROUTE_NAMES as the set of its [code, name] entries
ROUTE_NAMES == {[code |-> RouteCodes[i], name |-> RouteDisplay[i]] : i \in 1..Len(RouteCodes)}

\* a bug: the fallback to the code is left out, an unmapped code has no name
getRouteNameNoFallback(routeCode) ==
  IF \E e \in ROUTE_NAMES : e.code = routeCode
  THEN (CHOOSE e \in ROUTE_NAMES : e.code = routeCode).name
  ELSE "undefined"

\* ROUTE_NAMES[routeCode] || routeCode
getRouteName(routeCode) ==
  IF \E e \in ROUTE_NAMES : e.code = routeCode
  THEN (CHOOSE e \in ROUTE_NAMES : e.code = routeCode).name
  ELSE routeCode

(***************************************************************************)
(* Filter engine (App.tsx, filteredData).                                  *)
(***************************************************************************)
\* a bug: the route test is left out
RowPassesTripOnly(row, selRoute, selTripType) ==
  ~(selTripType # "" /\ (~Has(row, "trip_type") \/ row.trip_type # selTripType))

\* the callback of data.filter: false on a route or a trip-type mismatch
RowPasses(row, selRoute, selTripType) ==
  /\ ~(selRoute # "" /\ (~Has(row, "route") \/ row.route # selRoute))
  /\ ~(selTripType # "" /\ (~Has(row, "trip_type") \/ row.trip_type # selTripType))

FilteredData(rows, selRoute, selTripType) ==
  LET keep(row) == RowPasses(row, selRoute, selTripType)
  IN  SelectSeq(rows, keep)

(***************************************************************************)
(* Facets (App.tsx, routes / tripTypes): Array.from(new Set(values)).sort() *)
(* over the values that pass filter(Boolean).  sort() without a comparator *)
(* orders strings by their UTF-16 code units.                              *)
(***************************************************************************)
\* the letters in the order of their code units: upper case before lower case
Alphabet ==
  << "A", "B", "C", "D", "E", "F", "G", "H", "I", "J", "K", "L", "M",
     "N", "O", "P", "Q", "R", "S", "T", "U", "V", "W", "X", "Y", "Z",
     "a", "b", "c", "d", "e", "f", "g", "h", "i", "j", "k", "l", "m",
     "n", "o", "p", "q", "r", "s", "t", "u", "v", "w", "x", "y", "z" >>

CodeUnitRank(c) == CHOOSE i \in 1..Len(Alphabet) : Alphabet[i] = c

\* the code units of the strings that occur as route or trip_type values
Letters(s) ==
  CASE s = "AKLDEL" -> << "A", "K", "L", "D", "E", "L" >>
    [] s = "AKLHGH" -> << "A", "K", "L", "H", "G", "H" >>
    [] s = "AKLHND" -> << "A", "K", "L", "H", "N", "D" >>
    [] s = "AKLICN" -> << "A", "K", "L", "I", "C", "N" >>
    [] s = "AKLKIX" -> << "A", "K", "L", "K", "I", "X" >>
    [] s = "AKLKTM" -> << "A", "K", "L", "K", "T", "M" >>
    [] s = "AKLKUL" -> << "A", "K", "L", "K", "U", "L" >>
    [] s = "AKLNRT" -> << "A", "K", "L", "N", "R", "T" >>
    [] s = "AKLPVG" -> << "A", "K", "L", "P", "V", "G" >>
    [] s = "AKLSIN" -> << "A", "K", "L", "S", "I", "N" >>
    [] s = "AKLTPE" -> << "A", "K", "L", "T", "P", "E" >>
    [] s = "MELBKK" -> << "M", "E", "L", "B", "K", "K" >>
    [] s = "MELDEL" -> << "M", "E", "L", "D", "E", "L" >>
    [] s = "MELHKG" -> << "M", "E", "L", "H", "K", "G" >>
    [] s = "MELSIN" -> << "M", "E", "L", "S", "I", "N" >>
    [] s = "SYDBKK" -> << "S", "Y", "D", "B", "K", "K" >>
    [] s = "SYDDEL" -> << "S", "Y", "D", "D", "E", "L" >>
    [] s = "SYDHKG" -> << "S", "Y", "D", "H", "K", "G" >>
    [] s = "SYDSIN" -> << "S", "Y", "D", "S", "I", "N" >>
    [] s = "XXXYYY" -> << "X", "X", "X", "Y", "Y", "Y" >>
    [] s = "Unknown" -> << "U", "n", "k", "n", "o", "w", "n" >>
    [] s = "RoundTrip" -> << "R", "o", "u", "n", "d", "T", "r", "i", "p" >>
    [] s = "OneWay" -> << "O", "n", "e", "W", "a", "y" >>

\* a < b as sort() compares two strings: the first differing code unit
\* decides, and a proper prefix comes first
StringLess(a, b) ==
  LET x == Letters(a)
      y == Letters(b)
      differ == {i \in 1..Len(x) : i <= Len(y) /\ x[i] # y[i]}
  IN  IF differ = {} THEN Len(x) < Len(y)
      ELSE LET d == CHOOSE i \in differ : \A j \in differ : i <= j
           IN  CodeUnitRank(x[d]) < CodeUnitRank(y[d])

\* new Set(values): each value once, in the order it was first added
RECURSIVE SetOrder(_)
SetOrder(values) ==
  IF values = << >> THEN << >>
  ELSE LET n    == Len(values)
           head == SetOrder(SubSeq(values, 1, n - 1))
       IN  IF \E i \in 1..Len(head) : head[i] = values[n] THEN head
           ELSE Append(head, values[n])

\* a bug: sort() is left out, the options stay in first-seen order
SortStringsOmitted(values) == values

\* Array.prototype.sort() over distinct strings
RECURSIVE SortStrings(_)
SortStrings(values) ==
  IF values = << >> THEN << >>
  ELSE LET n      == Len(values)
           sorted == SortStrings(SubSeq(values, 1, n - 1))
           less(v) == StringLess(v, values[n])
           more(v) == ~StringLess(v, values[n])
           before  == SelectSeq(sorted, less)
           after   == SelectSeq(sorted, more)
       IN  before \o << values[n] >> \o after

\* data.map(r => r.route).filter(Boolean)
RouteValues(rows) ==
  LET present(r) == Has(r, "route") /\ r.route # ""
      kept       == SelectSeq(rows, present)
  IN  [i \in 1..Len(kept) |-> kept[i].route]

TripTypeValues(rows) ==
  LET present(r) == Has(r, "trip_type") /\ r.trip_type # ""
      kept       == SelectSeq(rows, present)
  IN  [i \in 1..Len(kept) |-> kept[i].trip_type]

Routes(rows) == SortStrings(SetOrder(RouteValues(rows)))

TripTypes(rows) == SortStrings(SetOrder(TripTypeValues(rows)))

(***************************************************************************)
(* ChartPanel aggregations.                                                *)
(***************************************************************************)
\* String(r.booking_complete ?? '0')
CompletionKey(r) == NullishDefault(r, "booking_complete", "0")

\* a bug: ?? in place of ||, so that the empty trip type keeps its own key
TripTypeKeyNullish(r) == NullishDefault(r, "trip_type", "Unknown")

\* r.trip_type || 'Unknown'
TripTypeKey(r) == OrDefault(r, "trip_type", "Unknown")

\* r.route || 'Unknown'
RouteKey(r) == OrDefault(r, "route", "Unknown")

\* data.forEach(r => counts[key] = (counts[key] || 0) + 1), from {}, over
\* the keys of the rows in order
RECURSIVE CountKeys(_, _)
CountKeys(keys, obj) ==
  IF keys = <<>> THEN obj
  ELSE CountKeys(Tail(keys), Increment(obj, Head(keys)))

\* {name: k === '1' ? 'Complete' : 'Incomplete', value: v}
CompletionBucket(e) ==
  [name |-> IF e.k = "1" THEN "Complete" ELSE "Incomplete", value |-> e.v]

ByCompletion(rows) ==
  IF Len(rows) = 0 THEN <<>>
  ELSE LET entries == ObjectEntries(CountKeys([i \in 1..Len(rows) |-> CompletionKey(rows[i])], <<>>))
       IN  [i \in 1..Len(entries) |-> CompletionBucket(entries[i])]

ByTripType(rows) ==
  IF Len(rows) = 0 THEN <<>>
  ELSE LET entries == ObjectEntries(CountKeys([i \in 1..Len(rows) |-> TripTypeKey(rows[i])], <<>>))
       IN  [i \in 1..Len(entries) |-> [name |-> entries[i].k, value |-> entries[i].v]]

\* a bug: an unstable sort, e goes before the entries of equal count
InsertByCountUnstable(sorted, e) ==
  LET n == Cardinality({i \in 1..Len(sorted) : sorted[i].v > e.v})
  IN  SubSeq(sorted, 1, n) \o <<e>> \o SubSeq(sorted, n + 1, Len(sorted))

\* one step of the stable sort by (a, b) => b[1] - a[1]: e goes after every
\* entry whose count is not smaller
InsertByCount(sorted, e) ==
  LET n == Cardinality({i \in 1..Len(sorted) : sorted[i].v >= e.v})
  IN  SubSeq(sorted, 1, n) \o <<e>> \o SubSeq(sorted, n + 1, Len(sorted))

RECURSIVE SortByCountDesc(_, _)
SortByCountDesc(entries, sorted) ==
  IF entries = <<>> THEN sorted
  ELSE SortByCountDesc(Tail(entries), InsertByCount(sorted, Head(entries)))

TopRoutes(rows) ==
  IF Len(rows) = 0 THEN <<>>
  ELSE LET entries == ObjectEntries(CountKeys([i \in 1..Len(rows) |-> RouteKey(rows[i])], <<>>))
           top     == Take(SortByCountDesc(entries, <<>>), TopRoutesLimit)
       IN  [i \in 1..Len(top) |-> [route |-> getRouteName(top[i].k), count |-> top[i].v]]

\* the counts object ChartPanel.topRoutes and RouteMap.routeCounts build
\* alike: one entry per route group, keyed r.route || 'Unknown'
RouteGroups(rows) == CountKeys([i \in 1..Len(rows) |-> RouteKey(rows[i])], <<>>)

\* Number(r.purchase_lead) || 0
LeadValue(r) ==
  NumOrZero(IF Has(r, "purchase_lead") THEN ToNumber(r.purchase_lead) ELSE NaN)

\* sums[route] = sums[route] || {sum: 0, c: 0}; sums[route].sum += val; .c += 1
Accumulate(obj, k, val) ==
  LET p == KeyPos(obj, k)
  IN  IF p = 0 THEN Append(obj, [k |-> k, v |-> [sum |-> NumAdd(Fin(0), val), c |-> 1]])
      ELSE [obj EXCEPT ![p].v = [sum |-> NumAdd(@.sum, val), c |-> @.c + 1]]

RECURSIVE SumLeadByRoute(_, _)
SumLeadByRoute(rows, obj) ==
  IF rows = <<>> THEN obj
  ELSE SumLeadByRoute(Tail(rows), Accumulate(obj, RouteKey(Head(rows)), LeadValue(Head(rows))))

\* a bug: the quotient cut to one decimal instead of rounded
AvgLeadEntryTruncated(e) == [route |-> getRouteName(e.k), avg |-> Fin((10 * e.v.sum.v) \div e.v.c)]

\* {route: getRouteName(route), avg: +(obj.sum/obj.c).toFixed(1)}
AvgLeadEntry(e) == [route |-> getRouteName(e.k), avg |-> DivRounded1(e.v.sum, e.v.c)]

AvgLeadByRoute(rows) ==
  IF Len(rows) = 0 THEN <<>>
  ELSE LET first == Take(ObjectEntries(SumLeadByRoute(rows, <<>>)), AvgLeadLimit)
       IN  [i \in 1..Len(first) |-> AvgLeadEntry(first[i])]

(***************************************************************************)
(* Stat cards (App.tsx, stats).                                            *)
(***************************************************************************)
\* r.booking_complete === '1'
IsCompleted(r) == Has(r, "booking_complete") /\ r.booking_complete = "1"

\* Number(r.num_passengers || 0)
PassengersValue(r) ==
  IF Has(r, "num_passengers") /\ r.num_passengers # "" THEN ToNumber(r.num_passengers)
  ELSE Fin(0)

\* filteredData.reduce((sum, r) => sum + Number(r.num_passengers || 0), 0)
RECURSIVE SumPassengers(_, _)
SumPassengers(rows, sum) ==
  IF rows = <<>> THEN sum
  ELSE SumPassengers(Tail(rows), NumAdd(sum, PassengersValue(Head(rows))))

\* the member of the Set that r => r.route contributes: <<>> for undefined
RouteMember(r) == IF Has(r, "route") THEN <<r.route>> ELSE <<>>

\* a bug: the percentage written without its decimal place
CompletionRateWhole(completed, total) ==
  IF total > 0 THEN ToString((100 * completed) \div total) ELSE "0"

\* a bug: no guard for total = 0, so that 0 / 0 is written
CompletionRateUnguarded(completed, total) ==
  IF total > 0 THEN DivToFixed1(Fin(100 * completed), total) ELSE "NaN"

\* ((completed / total) * 100).toFixed(1), or '0' without records

CompletionRate(completed, total) ==
  IF total > 0 THEN DivToFixed1(Fin(100 * completed), total) ELSE "0"

Stats(rows) ==
  LET completed == Cardinality({i \in 1..Len(rows) : IsCompleted(rows[i])})
      total     == Len(rows)
  IN  [ total          |-> total,
        completed      |-> completed,
        completionRate |-> CompletionRate(completed, total),
        avgPassengers  |-> IF total > 0 THEN DivToFixed1(SumPassengers(rows, Fin(0)), total)
                           ELSE "0",
        uniqueRoutes   |-> Cardinality({RouteMember(rows[i]) : i \in 1..Len(rows)}) ]

(***************************************************************************)
(* The datasets a fetch may deliver, as the rows Papa.parse returns.      *)
(***************************************************************************)
Row1 == [route |-> "AKLDEL", trip_type |-> "RoundTrip", booking_complete |-> "1",
         purchase_lead |-> "10"]
Row2 == [route |-> "AKLDEL", trip_type |-> "RoundTrip", booking_complete |-> "0",
         purchase_lead |-> "20"]
Row3 == [route |-> "SYDBKK", trip_type |-> "OneWay", booking_complete |-> "1",
         purchase_lead |-> "5"]
\* the row of an empty line: only the first column, empty
EmptyLineRow == [num_passengers |-> ""]
\* a row whose fields are all empty or not numeric
BlankRow == [route |-> "", trip_type |-> "", booking_complete |-> "",
             purchase_lead |-> "abc", num_passengers |-> "abc"]
\* a route outside ROUTE_NAMES and a booking_complete that is neither 0 nor 1
OddRow == [route |-> "XXXYYY", trip_type |-> "OneWay", booking_complete |-> "2",
           purchase_lead |-> "7", num_passengers |-> "3"]
\* the literal Unknown as a category, and an infinite lead
UnknownRow == [route |-> "Unknown", trip_type |-> "Unknown", booking_complete |-> "0",
               purchase_lead |-> "Infinity", num_passengers |-> "1"]

RowPool == {Row1, Row2, Row3, EmptyLineRow, BlankRow, OddRow, UnknownRow}

Datasets == SeqsUpTo(RowPool, MaxRows)

LeadCycle == << "5", "10", "20", "7" >>

\* the i-th row of a wide dataset: the i-th route code of the table
WideRow(i) ==
  [ route            |-> RouteCodes[i],
    trip_type        |-> IF i % 2 = 1 THEN "RoundTrip" ELSE "OneWay",
    booking_complete |-> IF i % 3 = 0 THEN "0" ELSE "1",
    purchase_lead    |-> LeadCycle[(i % 4) + 1],
    num_passengers   |-> "2" ]

WideHead(n) == [i \in 1..n |-> WideRow(i)]

\* rows that may follow a head of n routes: its first route again, one more
\* route, a row without route and a row with the empty route
TailPool(n) ==
  {[WideRow(1) EXCEPT !.purchase_lead = "5"], WideRow(n + 1), EmptyLineRow, BlankRow}

WideDatasets ==
  UNION { {WideHead(n) \o tail : tail \in SeqsUpTo(TailPool(n), MaxTail)} : n \in 0..MaxWide }

(***************************************************************************)
(* The dataset as text, and Papa.parse / Papa.unparse over it.  A text is  *)
(* the sequence of its lines, a line the sequence of its fields; the empty *)
(* text has no line, an empty line has the one field "".  A text that ends *)
(* with a newline ends with an empty line.  The quoting of a field is not  *)
(* modelled: a field stands for its unquoted value.                        *)
(***************************************************************************)
CsvHeader == << "num_passengers", "trip_type", "purchase_lead", "route", "booking_complete" >>

CsvLine1 == << "2", "RoundTrip", "10", "AKLDEL", "1" >>
CsvLine2 == << "1", "OneWay", "5", "SYDBKK", "0" >>
\* an empty line, and the line after a trailing newline
EmptyLine == << "" >>
\* a line with fewer fields than the header
ShortLine == << "3", "RoundTrip" >>

LinePool == {CsvLine1, CsvLine2, EmptyLine, ShortLine}

\* the empty text, and the header followed by up to MaxLines lines
CsvTexts == {<< >>} \cup {<< CsvHeader >> \o body : body \in SeqsUpTo(LinePool, MaxLines)}

\* one file of three well-formed lines
SmallTexts == {<< CsvHeader, CsvLine1, CsvLine2, CsvLine1 >>}

\* a row of Papa.parse with header: true: the i-th field under the i-th
\* header name, for as many fields as the line has (lines here have no more
\* fields than the header)
ParseRow(fields, line) ==
  LET n == IF Len(line) < Len(fields) THEN Len(line) ELSE Len(fields)
  IN  [f \in {fields[j] : j \in 1..n} |-> line[CHOOSE j \in 1..n : fields[j] = f]]

\* Papa.parse(csvText, { header: true, dynamicTyping: false }).data: the
\* first line names the fields, every later line is a row, an empty line too
\* (skipEmptyLines is left at false)
PapaParse(text) ==
  IF Len(text) <= 1 THEN << >>
  ELSE [i \in 1..(Len(text) - 1) |-> ParseRow(text[1], text[i + 1])]

\* Object.keys of a row: the order in which the parse added the fields
ObjectKeys(row) ==
  LET has(f) == Has(row, f)
  IN  SelectSeq(CsvHeader, has)

\* Papa.unparse(rows): nothing for no rows; else the keys of the first row
\* as the header, and for each row its values under these keys, the empty
\* field for a key the row lacks
PapaUnparse(rows) ==
  IF rows = << >> THEN << >>
  ELSE LET fields == ObjectKeys(rows[1])
           line(row) == [j \in 1..Len(fields) |->
                           IF Has(row, fields[j]) THEN row[fields[j]] ELSE ""]
       IN  << fields >> \o [i \in 1..Len(rows) |-> line(rows[i])]

\* what the first then-callback hands on: the text and what Papa.parse makes of it
Responses(texts) == {[csvText |-> << t >>, parsed |-> PapaParse(t)] : t \in texts}

\* parsed rows whose text is not modelled
ParsedOnly(files) == {[csvText |-> << >>, parsed |-> rows] : rows \in files}

(***************************************************************************)
(* State of the App component and of what it renders.                     *)
(***************************************************************************)
VARIABLES
  data,              \* useState<Row[]>([])
  loading,           \* useState(true)
  selectedRoute,     \* useState('')
  selectedTripType,  \* useState('')
  isDark,            \* useState(true)
  showGlobe3D,       \* useState(false)
  fetchState,        \* the load effect's promise chain
  csvText,           \* << the response text >> once r.text() has resolved
  errorLogged,       \* console.error has been called
  storedTheme,       \* localStorage 'theme'
  pendingTheme,      \* the setIsDark queued by the theme load effect
  saveDue,           \* the theme save effect is due: isDark changed
  exported,          \* << the text of the last download >>
  session,           \* the number of reloads of the page
  carried,           \* the theme the last unload left shown and stored
  routes,            \* useMemo over data
  tripTypes,         \* useMemo over data
  filteredData,      \* useMemo over data, selectedRoute, selectedTripType
  stats,             \* useMemo over filteredData
  byCompletion,      \* ChartPanel memos over filteredData
  byTripType,
  topRoutes,
  avgLeadByRoute

loadVars == << data, loading, fetchState, csvText, errorLogged >>

selectionVars == << selectedRoute, selectedTripType >>

themeVars == << isDark, storedTheme, pendingTheme, saveDue >>

derivedVars == << routes, tripTypes, filteredData, stats,
                  byCompletion, byTripType, topRoutes, avgLeadByRoute >>

vars == << loadVars, selectionVars, themeVars, showGlobe3D, exported, session, carried,
           derivedVars >>

\* parsed.data.filter(Boolean): every row object is truthy
FilterBoolean(rows) ==
  LET truthy(row) == TRUE
  IN  SelectSeq(rows, truthy)

\* isDark ? 'dark' : 'light'
ThemeName(dark) == IF dark THEN "dark" ELSE "light"

\* what the first render of a mount shows: every memo computed
FirstRender ==
  /\ routes = Routes(data)
  /\ tripTypes = TripTypes(data)
  /\ filteredData = FilteredData(data, selectedRoute, selectedTripType)
  /\ stats = Stats(filteredData)
  /\ byCompletion = ByCompletion(filteredData)
  /\ byTripType = ByTripType(filteredData)
  /\ topRoutes = TopRoutes(filteredData)
  /\ avgLeadByRoute = AvgLeadByRoute(filteredData)

\* a bug: selectedTripType is missing from the dependencies of filteredData
RenderStale ==
  LET refilter == << data', selectedRoute' >> # << data, selectedRoute >>
  IN  /\ routes' = IF data' # data THEN Routes(data') ELSE routes
      /\ tripTypes' = IF data' # data THEN TripTypes(data') ELSE tripTypes
      /\ filteredData' = IF refilter
                         THEN FilteredData(data', selectedRoute', selectedTripType')
                         ELSE filteredData
      /\ stats' = IF refilter THEN Stats(filteredData') ELSE stats
      /\ byCompletion' = IF refilter THEN ByCompletion(filteredData') ELSE byCompletion
      /\ byTripType' = IF refilter THEN ByTripType(filteredData') ELSE byTripType
      /\ topRoutes' = IF refilter THEN TopRoutes(filteredData') ELSE topRoutes
      /\ avgLeadByRoute' = IF refilter THEN AvgLeadByRoute(filteredData') ELSE avgLeadByRoute

\* the re-render after a state change: a memo is computed again when one of
\* its dependencies changed and keeps its value otherwise; the memos over
\* filteredData follow the memo of filteredData
Render ==
  LET refilter == << data', selectedRoute', selectedTripType' >>
                    # << data, selectedRoute, selectedTripType >>
  IN  /\ routes' = IF data' # data THEN Routes(data') ELSE routes
      /\ tripTypes' = IF data' # data THEN TripTypes(data') ELSE tripTypes
      /\ filteredData' = IF refilter
                         THEN FilteredData(data', selectedRoute', selectedTripType')
                         ELSE filteredData
      /\ stats' = IF refilter THEN Stats(filteredData') ELSE stats
      /\ byCompletion' = IF refilter THEN ByCompletion(filteredData') ELSE byCompletion
      /\ byTripType' = IF refilter THEN ByTripType(filteredData') ELSE byTripType
      /\ topRoutes' = IF refilter THEN TopRoutes(filteredData') ELSE topRoutes
      /\ avgLeadByRoute' = IF refilter THEN AvgLeadByRoute(filteredData') ELSE avgLeadByRoute

\* the state once a mount has rendered and its three effects have run in
\* their order: the fetch is under way; the theme load effect has read
\* saved from localStorage and, if there was one, queued setIsDark; the
\* theme save effect has stored the theme of the first render, dark
Mounted(saved) ==
  /\ data = << >>
  /\ loading = TRUE
  /\ selectedRoute = ""
  /\ selectedTripType = ""
  /\ isDark = TRUE
  /\ showGlobe3D = FALSE
  /\ fetchState = "pending"
  /\ csvText = << >>
  /\ errorLogged = FALSE
  /\ storedTheme = "dark"
  /\ pendingTheme = saved
  /\ saveDue = FALSE
  /\ FirstRender

\* a mount as a step: the state of Mounted(saved) in the next state
Remounted(saved) ==
  /\ data' = << >>
  /\ loading' = TRUE
  /\ selectedRoute' = ""
  /\ selectedTripType' = ""
  /\ isDark' = TRUE
  /\ showGlobe3D' = FALSE
  /\ fetchState' = "pending"
  /\ csvText' = << >>
  /\ errorLogged' = FALSE
  /\ storedTheme' = "dark"
  /\ pendingTheme' = saved
  /\ saveDue' = FALSE
  /\ routes' = Routes(data')
  /\ tripTypes' = TripTypes(data')
  /\ filteredData' = FilteredData(data', selectedRoute', selectedTripType')
  /\ stats' = Stats(filteredData')
  /\ byCompletion' = ByCompletion(filteredData')
  /\ byTripType' = ByTripType(filteredData')
  /\ topRoutes' = TopRoutes(filteredData')
  /\ avgLeadByRoute' = AvgLeadByRoute(filteredData')

\* the first visit: localStorage holds no theme
Init ==
  /\ Mounted("none")
  /\ exported = << >>
  /\ session = 0
  /\ carried = "none"

\* a visit that finds any or no theme in localStorage
InitApp ==
  /\ \E saved \in {"none", "dark", "light"} : Mounted(saved)
  /\ exported = << >>
  /\ session = 0
  /\ carried = "none"

\* no theme work of React is outstanding; an event handler runs only then
ThemeIdle == pendingTheme = "none" /\ ~saveDue

\* a bug: setLoading(false) in the first then-callback, before the store is written
FetchFulfilledFlagDown ==
  /\ fetchState = "pending"
  /\ fetchState' = "fulfilled"
  /\ loading' = FALSE
  /\ UNCHANGED << data, csvText, errorLogged, selectionVars, themeVars, showGlobe3D,
                  exported, session, carried >>
  /\ Render

\* fetch resolves with a response: the first then-callback calls r.text()
FetchFulfilled ==
  /\ fetchState = "pending"
  /\ fetchState' = "fulfilled"
  /\ UNCHANGED << data, loading, csvText, errorLogged, selectionVars, themeVars,
                  showGlobe3D, exported, session, carried >>
  /\ Render

\* r.text() resolves: the second then-callback parses the text and calls setData
FetchResolve(responses) ==
  /\ fetchState = "fulfilled"
  /\ \E resp \in responses :
       /\ data' = FilterBoolean(resp.parsed)
       /\ csvText' = resp.csvText
  /\ fetchState' = "resolved"
  /\ UNCHANGED << loading, errorLogged, selectionVars, themeVars, showGlobe3D, exported,
                  session, carried >>
  /\ Render

\* a bug: the catch handler starts the load again
FetchRejectRetry ==
  /\ fetchState \in {"pending", "fulfilled"}
  /\ errorLogged' = TRUE
  /\ UNCHANGED << data, fetchState, loading, csvText, selectionVars, themeVars,
                  showGlobe3D, exported, session, carried >>
  /\ Render

\* fetch or r.text() rejects, or the then-callback throws: catch logs the error
FetchReject ==
  /\ fetchState \in {"pending", "fulfilled"}
  /\ fetchState' = "rejected"
  /\ errorLogged' = TRUE
  /\ UNCHANGED << data, loading, csvText, selectionVars, themeVars, showGlobe3D, exported,
                  session, carried >>
  /\ Render

\* finally: setLoading(false)
FetchFinally ==
  /\ fetchState \in {"resolved", "rejected"}
  /\ loading' = FALSE
  /\ fetchState' = "settled"
  /\ UNCHANGED << data, csvText, errorLogged, selectionVars, themeVars, showGlobe3D,
                  exported, session, carried >>
  /\ Render

\* a bug: the handler writes the filtered rows back into the store
SelectRouteOverwriting ==
  /\ ThemeIdle
  /\ \E r \in {""} \cup {routes[i] : i \in 1..Len(routes)} :
       /\ r # selectedRoute
       /\ selectedRoute' = r
       /\ data' = FilteredData(data, r, selectedTripType)
  /\ UNCHANGED << loading, fetchState, csvText, errorLogged, selectedTripType, themeVars,
                  showGlobe3D, exported, session, carried >>
  /\ Render

\* onRouteChange of the route select: the value of one of its options
SelectRoute ==
  /\ ThemeIdle
  /\ \E r \in {""} \cup {routes[i] : i \in 1..Len(routes)} :
       /\ r # selectedRoute
       /\ selectedRoute' = r
  /\ UNCHANGED << loadVars, selectedTripType, themeVars, showGlobe3D, exported, session,
                  carried >>
  /\ Render

\* a bug: the select offers a fixed list of trip types, not the facet
SelectTripTypeFixedOptions ==
  /\ ThemeIdle
  /\ \E t \in {"", "RoundTrip", "OneWay"} :
       /\ t # selectedTripType
       /\ selectedTripType' = t
  /\ UNCHANGED << loadVars, selectedRoute, themeVars, showGlobe3D, exported, session,
                  carried >>
  /\ Render

\* onTripTypeChange of the trip-type select
SelectTripType ==
  /\ ThemeIdle
  /\ \E t \in {""} \cup {tripTypes[i] : i \in 1..Len(tripTypes)} :
       /\ t # selectedTripType
       /\ selectedTripType' = t
  /\ UNCHANGED << loadVars, selectedRoute, themeVars, showGlobe3D, exported, session,
                  carried >>
  /\ Render

\* the re-render for the setIsDark(saved === 'dark') of the theme load
\* effect; the save effect is due after it when isDark changed
ApplyStoredTheme ==
  /\ pendingTheme # "none"
  /\ isDark' = (pendingTheme = "dark")
  /\ pendingTheme' = "none"
  /\ saveDue' = (isDark' # isDark)
  /\ UNCHANGED << loadVars, selectionVars, storedTheme, showGlobe3D, exported, session,
                  carried >>
  /\ Render

\* the theme save effect: localStorage.setItem('theme', isDark ? 'dark' : 'light')
SaveTheme ==
  /\ saveDue
  /\ storedTheme' = ThemeName(isDark)
  /\ saveDue' = FALSE
  /\ UNCHANGED << loadVars, selectionVars, isDark, pendingTheme, showGlobe3D, exported,
                  session, carried >>
  /\ Render

\* onToggle of ThemeToggle: setIsDark(!isDark)
ToggleTheme ==
  /\ ThemeIdle
  /\ isDark' = ~isDark
  /\ saveDue' = TRUE
  /\ carried' = "none"
  /\ UNCHANGED << loadVars, selectionVars, storedTheme, pendingTheme, showGlobe3D,
                  exported, session >>
  /\ Render

\* a bug: the view toggle also clears the filter selection
ToggleGlobe3DClearing ==
  /\ ThemeIdle
  /\ showGlobe3D' = ~showGlobe3D
  /\ selectedRoute' = ""
  /\ selectedTripType' = ""
  /\ UNCHANGED << loadVars, themeVars, exported, session, carried >>
  /\ Render

\* onClick of the view button: setShowGlobe3D(!showGlobe3D)
ToggleGlobe3D ==
  /\ ThemeIdle
  /\ showGlobe3D' = ~showGlobe3D
  /\ UNCHANGED << loadVars, selectionVars, themeVars, exported, session, carried >>
  /\ Render

\* handleExport: the filtered rows are unparsed and handed to the download
handleExport ==
  /\ ThemeIdle
  /\ exported' = << PapaUnparse(filteredData) >>
  /\ UNCHANGED << loadVars, selectionVars, themeVars, showGlobe3D, session, carried >>
  /\ Render

\* a bug: the theme load effect does not read localStorage
ReloadForgetful ==
  /\ session < MaxReloads
  /\ session' = session + 1
  /\ carried' = IF storedTheme = ThemeName(isDark) THEN storedTheme ELSE "unsaved"
  /\ Remounted("none")
  /\ UNCHANGED exported

\* the page is reloaded: localStorage and the downloads stay, the component
\* mounts anew, renders and runs its effects
Reload ==
  /\ session < MaxReloads
  /\ session' = session + 1
  /\ carried' = IF storedTheme = ThemeName(isDark) THEN storedTheme ELSE "unsaved"
  /\ Remounted(storedTheme)
  /\ UNCHANGED exported

Next ==
  \/ FetchFulfilled
  \/ FetchResolve(ParsedOnly(Datasets))
  \/ FetchReject
  \/ FetchFinally
  \/ SelectRoute
  \/ SelectTripType

Spec == Init /\ [][Next]_vars

\* the same component fed the wide datasets
NextWide ==
  \/ FetchFulfilled
  \/ FetchResolve(ParsedOnly(WideDatasets))
  \/ FetchReject
  \/ FetchFinally
  \/ SelectRoute
  \/ SelectTripType

SpecWide == Init /\ [][NextWide]_vars

\* the component with every event of one page load, fed the texts
NextApp ==
  \/ FetchFulfilled
  \/ FetchResolve(Responses(CsvTexts))
  \/ FetchReject
  \/ FetchFinally
  \/ SelectRoute
  \/ SelectTripType
  \/ ApplyStoredTheme
  \/ SaveTheme
  \/ ToggleTheme
  \/ ToggleGlobe3D
  \/ handleExport

SpecApp == InitApp /\ [][NextApp]_vars

\* the same, with the promise job of finally run once the chain has settled
SpecAppFair == SpecApp /\ WF_vars(FetchFinally)

\* the component across reloads of the page
NextReload ==
  \/ FetchFulfilled
  \/ FetchResolve(Responses(SmallTexts))
  \/ FetchReject
  \/ FetchFinally
  \/ SelectRoute
  \/ SelectTripType
  \/ ApplyStoredTheme
  \/ SaveTheme
  \/ ToggleTheme
  \/ ToggleGlobe3D
  \/ handleExport
  \/ Reload

SpecReload == Init /\ [][NextReload]_vars

(***************************************************************************)
(* Vocabulary of the properties: the categories and sums the properties   *)
(* speak of, stated over the filtered sequence itself.                    *)
(***************************************************************************)
\* the scenario dataset of three records
Scenario == << Row1, Row2, Row3 >>

\* a record satisfies the selection (r, t)
Satisfies(rec, r, t) ==
  /\ r = "" \/ (Has(rec, "route") /\ rec.route = r)
  /\ t = "" \/ (Has(rec, "trip_type") /\ rec.trip_type = t)

\* the k-th smallest member of a set of indices
KthIndex(idx, k) == CHOOSE i \in idx : Cardinality({j \in idx : j < i}) = k - 1

\* the sum of f over a finite set of indices
RECURSIVE SumOver(_, _)
SumOver(idx, f) ==
  IF idx = {} THEN 0
  ELSE LET i == CHOOSE j \in idx : TRUE
       IN  f[i] + SumOver(idx \ {i}, f)

\* the category of a field: missing and empty count as "Unknown"
Category(rec, f) == IF Has(rec, f) /\ rec[f] # "" THEN rec[f] ELSE "Unknown"

\* the category of a field when only a missing value counts as "Unknown"
CategoryMissingOnly(rec, f) == IF Has(rec, f) THEN rec[f] ELSE "Unknown"

\* for a sequence cs of categories (cs[i] the category of the i-th record):
\* the categories, the positions of one, its first position, and the
\* category that is the k-th to appear
Categories(cs) == {cs[i] : i \in 1..Len(cs)}
Members(cs, c) == {i \in 1..Len(cs) : cs[i] = c}
FirstSeen(cs, c) == CHOOSE i \in Members(cs, c) : \A j \in Members(cs, c) : i <= j
KthCategory(cs, k) ==
  CHOOSE c \in Categories(cs) :
    Cardinality({d \in Categories(cs) : FirstSeen(cs, d) < FirstSeen(cs, c)}) = k - 1

\* the categories of the filtered records
RouteCategories == [i \in 1..Len(filteredData) |-> Category(filteredData[i], "route")]
TripCategories == [i \in 1..Len(filteredData) |-> Category(filteredData[i], "trip_type")]
TripCategoriesMissingOnly ==
  [i \in 1..Len(filteredData) |-> CategoryMissingOnly(filteredData[i], "trip_type")]

Min(a, b) == IF a < b THEN a ELSE b

\* t tenths is sum / count rounded to one decimal, halves away from zero
IsRoundedTenths(t, sum, count) ==
  /\ 2 * (t * count - 10 * sum) <= count
  /\ 2 * (t * count - 10 * sum) > -count

(***************************************************************************)
(* C1: the filtered sequence is exactly the subsequence of the store's    *)
(* records that satisfy (r empty or route = r) and (t empty or trip_type  *)
(* = t), in their original order; its length is the number of records     *)
(* that satisfy the predicate.                                            *)
(***************************************************************************)
C1_FilterIsSubsequence ==
  LET idx == {i \in 1..Len(data) : Satisfies(data[i], selectedRoute, selectedTripType)}
  IN  /\ Len(filteredData) = Cardinality(idx)
      /\ \A k \in 1..Len(filteredData) : filteredData[k] = data[KthIndex(idx, k)]

\* a route selection that keeps the first and the third of three records
C1_Witness ==
  /\ data = << Row1, Row3, Row2 >>
  /\ selectedRoute = "AKLDEL"
  /\ selectedTripType = "RoundTrip"
  /\ filteredData = << Row1, Row2 >>

(***************************************************************************)
(* C2: whatever values booking_complete takes, the Completion breakdown   *)
(* has at most two buckets, "Complete" counting the records with           *)
(* booking_complete = "1" and "Incomplete" counting all the others, and   *)
(* no bucket name appears twice.                                          *)
(***************************************************************************)
C2_AtMostTwoBuckets ==
  LET complete == {i \in 1..Len(filteredData) :
                     Has(filteredData[i], "booking_complete")
                     /\ filteredData[i].booking_complete = "1"}
      others   == (1..Len(filteredData)) \ complete
  IN  /\ Len(byCompletion) <= 2
      /\ \A i, j \in 1..Len(byCompletion) :
           byCompletion[i].name = byCompletion[j].name => i = j
      /\ \A i \in 1..Len(byCompletion) :
           \/ byCompletion[i] = [name |-> "Complete", value |-> Cardinality(complete)]
           \/ byCompletion[i] = [name |-> "Incomplete", value |-> Cardinality(others)]

(***************************************************************************)
(* C3: for a non-empty filtered sequence the values of the Completion     *)
(* breakdown's buckets sum to the length of the filtered sequence.        *)
(***************************************************************************)
C3_CompletionSumsToLength ==
  filteredData # <<>> =>
    SumOver(DOMAIN byCompletion, [i \in DOMAIN byCompletion |-> byCompletion[i].value])
      = Len(filteredData)

\* three records in two buckets, one of them counted twice
C3_Witness ==
  /\ Len(filteredData) = 3
  /\ Len(byCompletion) = 2
  /\ \E i \in 1..2 : byCompletion[i].value = 2

(***************************************************************************)
(* C4: the Top-routes output has at most 10 entries, is sorted            *)
(* non-increasing by count, each count is the number of filtered records  *)
(* of that route (missing and empty routes counted under "Unknown"),      *)
(* routes with equal counts appear in first-encountered order, and no     *)
(* omitted route has a count greater than an included one.                *)
(***************************************************************************)
\* the route categories whose entry the output holds
C4_Included ==
  {c \in Categories(RouteCategories) :
     \E i \in 1..Len(topRoutes) : topRoutes[i].route = getRouteName(c)}

C4_TopRoutes ==
  LET cats == Categories(RouteCategories)
      size(c) == Cardinality(Members(RouteCategories, c))
      first(c) == FirstSeen(RouteCategories, c)
      \* the category the i-th entry stands for
      cat(i) == CHOOSE c \in cats : topRoutes[i].route = getRouteName(c)
  IN  /\ Len(topRoutes) = Min(TopRoutesLimit, Cardinality(cats))
      /\ \A i \in 1..Len(topRoutes) :
           /\ \E c \in cats : topRoutes[i].route = getRouteName(c)
           /\ topRoutes[i].count = size(cat(i))
      /\ \A i, j \in 1..Len(topRoutes) :
           i < j =>
             /\ topRoutes[i].count >= topRoutes[j].count
             /\ cat(i) # cat(j)
             /\ topRoutes[i].count = topRoutes[j].count => first(cat(i)) < first(cat(j))
      /\ \A c \in cats \ C4_Included :
           \A i \in 1..Len(topRoutes) : size(c) <= topRoutes[i].count

\* more than twelve routes: the two rows without a usable route, seen last,
\* lead as "Unknown" with count 2; nine routes with one record each follow
\* in the order seen, and the other routes with one record are left out
C4_Witness ==
  /\ Cardinality(Categories(RouteCategories)) > TopRoutesLimit + 2
  /\ Len(topRoutes) = TopRoutesLimit
  /\ topRoutes[1] = [route |-> "Unknown", count |-> 2]
  /\ topRoutes[2].count = 1
  /\ topRoutes[TopRoutesLimit].count = 1
  /\ ~Has(filteredData[Len(filteredData)], "route")

(***************************************************************************)
(* C5: the Average-lead output has at most 12 entries, the first 12       *)
(* distinct routes in first-seen order (not sorted by value); each avg is *)
(* the sum of purchase_lead over the filtered records of the route        *)
(* divided by their count, rounded to one decimal place.                  *)
(***************************************************************************)
\* the lead a record contributes: its number, 0 when missing or no number
C5_Lead(rec) ==
  IF Has(rec, "purchase_lead") /\ ToNumber(rec.purchase_lead).kind # "nan"
  THEN ToNumber(rec.purchase_lead)
  ELSE Fin(0)

C5_AvgLead ==
  LET cats == Categories(RouteCategories)
      mem(c) == Members(RouteCategories, c)
      sum(c) == SumOver(mem(c), [i \in mem(c) |-> C5_Lead(filteredData[i]).v])
      infinite(c) == \E i \in mem(c) : C5_Lead(filteredData[i]).kind = "inf"
  IN  /\ Len(avgLeadByRoute) = Min(AvgLeadLimit, Cardinality(cats))
      /\ \A k \in 1..Len(avgLeadByRoute) :
           LET c == KthCategory(RouteCategories, k)
               e == avgLeadByRoute[k]
           IN  /\ e.route = getRouteName(c)
               /\ IF infinite(c) THEN e.avg.kind = "inf"
                  ELSE /\ e.avg.kind = "fin"
                       /\ IsRoundedTenths(e.avg.v, sum(c), Cardinality(mem(c)))

\* thirteen routes or more, of which twelve are kept; the first route has
\* three records with leads 10, 5, 5, whose mean 6.66.. is rounded up to 6.7
C5_Witness ==
  /\ Cardinality(Categories(RouteCategories)) > AvgLeadLimit
  /\ Len(avgLeadByRoute) = AvgLeadLimit
  /\ Cardinality(Members(RouteCategories, "AKLDEL")) = 3
  /\ avgLeadByRoute[1] = [route |-> "Auckland -> Delhi", avg |-> Fin(67)]

(***************************************************************************)
(* C6, as stated: the Trip-type distribution has exactly one bucket per   *)
(* distinct trip_type value encountered, a missing trip_type counted      *)
(* under "Unknown"; each value is the number of filtered records of that  *)
(* trip type; buckets are in first-seen order.                            *)
(***************************************************************************)
C6_MissingOnlyUnknown ==
  LET cats == Categories(TripCategoriesMissingOnly)
  IN  /\ Len(byTripType) = Cardinality(cats)
      /\ \A k \in 1..Len(byTripType) :
           LET c == KthCategory(TripCategoriesMissingOnly, k)
           IN  byTripType[k] =
                 [name |-> c,
                  value |-> Cardinality(Members(TripCategoriesMissingOnly, c))]

(***************************************************************************)
(* C6, amended: the Trip-type distribution has exactly one bucket per     *)
(* distinct trip_type value encountered, a missing or empty trip_type     *)
(* counted under "Unknown"; each value is the number of filtered records  *)
(* of that trip type; buckets are in first-seen order.                    *)
(***************************************************************************)
C6_TripTypeBuckets ==
  LET cats == Categories(TripCategories)
  IN  /\ Len(byTripType) = Cardinality(cats)
      /\ \A k \in 1..Len(byTripType) :
           LET c == KthCategory(TripCategories, k)
           IN  byTripType[k] =
                 [name |-> c,
                  value |-> Cardinality(Members(TripCategories, c))]

\* a missing and an empty trip type share the bucket "Unknown", which comes
\* second because OneWay was seen first
C6_Witness ==
  /\ filteredData = << Row3, EmptyLineRow, BlankRow >>
  /\ byTripType = << [name |-> "OneWay", value |-> 1], [name |-> "Unknown", value |-> 2] >>

(***************************************************************************)
(* C7, as stated: for the three-record dataset with no filter the         *)
(* aggregates are, in this element order, Completion breakdown            *)
(* [Complete 2, Incomplete 1]; Trip-type [RoundTrip 2, OneWay 1]; Top     *)
(* routes [Auckland -> Delhi 2, Sydney -> Bangkok 1]; Average lead        *)
(* [Auckland -> Delhi 15.0, Sydney -> Bangkok 5.0].                       *)
(***************************************************************************)
C7_ScenarioRest ==
  /\ byTripType = << [name |-> "RoundTrip", value |-> 2], [name |-> "OneWay", value |-> 1] >>
  /\ topRoutes = << [route |-> "Auckland -> Delhi", count |-> 2],
                    [route |-> "Sydney -> Bangkok", count |-> 1] >>
  /\ avgLeadByRoute = << [route |-> "Auckland -> Delhi", avg |-> Fin(150)],
                         [route |-> "Sydney -> Bangkok", avg |-> Fin(50)] >>

C7_ScenarioNoFilter ==
  /\ data = Scenario
  /\ selectedRoute = ""
  /\ selectedTripType = ""

C7_CompleteFirst ==
  C7_ScenarioNoFilter =>
    /\ byCompletion = << [name |-> "Complete", value |-> 2],
                         [name |-> "Incomplete", value |-> 1] >>
    /\ C7_ScenarioRest

(***************************************************************************)
(* C7, amended: for the three-record dataset with no filter the           *)
(* aggregates are, in this element order, Completion breakdown            *)
(* [Incomplete 1, Complete 2]; Trip-type [RoundTrip 2, OneWay 1]; Top     *)
(* routes [Auckland -> Delhi 2, Sydney -> Bangkok 1]; Average lead        *)
(* [Auckland -> Delhi 15.0, Sydney -> Bangkok 5.0].                       *)
(***************************************************************************)
C7_ScenarioAggregates ==
  C7_ScenarioNoFilter =>
    /\ byCompletion = << [name |-> "Incomplete", value |-> 1],
                         [name |-> "Complete", value |-> 2] >>
    /\ C7_ScenarioRest

\* the scenario dataset is loaded and rendered with no filter
C7_Witness ==
  /\ C7_ScenarioNoFilter
  /\ ~loading
  /\ filteredData = Scenario
  /\ Len(byCompletion) = 2

(***************************************************************************)
(* C8: whenever the filtered sequence is empty (empty store, or a         *)
(* selection that matches no record) all four projections are empty      *)
(* sequences and the stats are total = 0 and completionRate = "0".        *)
(***************************************************************************)
C8_EmptyYieldsEmpty ==
  filteredData = <<>> =>
    /\ byCompletion = <<>>
    /\ byTripType = <<>>
    /\ topRoutes = <<>>
    /\ avgLeadByRoute = <<>>
    /\ stats.total = 0
    /\ stats.completionRate = "0"

\* a loaded store of three records and a selection that matches none
C8_Witness ==
  /\ Len(data) = 3
  /\ ~loading
  /\ selectedRoute # ""
  /\ selectedTripType # ""
  /\ filteredData = <<>>
  /\ byCompletion = <<>>
  /\ stats.total = 0

(***************************************************************************)
(* C9: stats.total is the length of the filtered sequence and             *)
(* stats.completed the number of its records with booking_complete = "1"; *)
(* when total > 0, completionRate is 100 * completed / total written with *)
(* exactly one decimal place (1 of 2 gives "50.0"), and "0" when total is *)
(* 0.                                                                     *)
(***************************************************************************)
C9_Stats ==
  LET done == {i \in 1..Len(filteredData) :
                 Has(filteredData[i], "booking_complete")
                 /\ filteredData[i].booking_complete = "1"}
      n == Len(filteredData)
  IN  /\ stats.total = n
      /\ stats.completed = Cardinality(done)
      /\ n = 0 => stats.completionRate = "0"
      /\ n > 0 =>
           \E t \in 0..1000 :
             /\ IsRoundedTenths(t, 100 * Cardinality(done), n)
             /\ stats.completionRate = ToString(t \div 10) \o "." \o ToString(t % 10)
      /\ (n = 2 /\ Cardinality(done) = 1) => stats.completionRate = "50.0"

\* the scenario filtered by route AKLDEL: its first two records, 1 of 2
C9_Witness ==
  /\ data = Scenario
  /\ selectedRoute = "AKLDEL"
  /\ filteredData = << Row1, Row2 >>
  /\ stats.total = 2
  /\ stats.completed = 1
  /\ stats.completionRate = "50.0"

(***************************************************************************)
(* C10: every numeric field aggregation reads is coerced uniformly: a     *)
(* purchase_lead or num_passengers that is missing or does not convert to *)
(* a valid finite number contributes 0, so neither avg nor avgPassengers  *)
(* is ever NaN or infinite.                                               *)
(***************************************************************************)
\* the number a field contributes under the coercion policy
C10_Coerced(rec, f) ==
  IF Has(rec, f) /\ ToNumber(rec[f]).kind = "fin" THEN ToNumber(rec[f]).v ELSE 0

C10_UniformCoercion ==
  LET n == Len(filteredData)
      idx == 1..n
      passengers == SumOver(idx, [i \in idx |-> C10_Coerced(filteredData[i], "num_passengers")])
  IN  /\ \A k \in 1..Len(avgLeadByRoute) : avgLeadByRoute[k].avg.kind = "fin"
      /\ stats.avgPassengers \notin {"NaN", "Infinity"}
      /\ n > 0 => stats.avgPassengers = TenthsToString(RoundTenths(passengers, n))

(***************************************************************************)
(* C11: routes and tripTypes each hold the distinct non-empty values of    *)
(* route / trip_type present in the record store, no value twice, in       *)
(* ascending order; a record whose value is missing or empty adds no       *)
(* entry, so "Unknown" is an option only if some record literally holds    *)
(* the string "Unknown".                                                   *)
(***************************************************************************)
\* facet lists exactly the non-empty values of field f in the store, once
\* each and ascending
C11_IsFacetOf(facet, f) ==
  /\ {facet[i] : i \in 1..Len(facet)}
       = {data[j][f] : j \in {k \in 1..Len(data) : Has(data[k], f) /\ data[k][f] # ""}}
  /\ \A i, j \in 1..Len(facet) : i < j => facet[i] # facet[j] /\ StringLess(facet[i], facet[j])
  /\ (\E i \in 1..Len(facet) : facet[i] = "Unknown")
       => \E j \in 1..Len(data) : Has(data[j], f) /\ data[j][f] = "Unknown"

C11_Facets ==
  /\ C11_IsFacetOf(routes, "route")
  /\ C11_IsFacetOf(tripTypes, "trip_type")

\* a store whose values are first seen in descending order, with a record
\* without route and the literal Unknown
C11_Witness ==
  /\ data = << OddRow, UnknownRow, EmptyLineRow >>
  /\ routes = << "Unknown", "XXXYYY" >>
  /\ tripTypes = << "OneWay", "Unknown" >>

(***************************************************************************)
(* C12: if the fetch or the parse fails, the failure is caught and logged, *)
(* the record store stays the empty sequence in every later state, the     *)
(* load is not started again, and the dashboard shows its zero state       *)
(* (stats total 0, all four aggregates empty).                             *)
(***************************************************************************)
C12_FailedLoad ==
  /\ fetchState = "rejected" => errorLogged
  /\ errorLogged =>
       /\ fetchState \in {"rejected", "settled"}
       /\ data = << >>
       /\ filteredData = << >>
       /\ stats.total = 0
       /\ byCompletion = << >>
       /\ byTripType = << >>
       /\ topRoutes = << >>
       /\ avgLeadByRoute = << >>

\* a failed load that has settled, with events of the user after it
C12_Witness ==
  /\ errorLogged
  /\ fetchState = "settled"
  /\ ~loading
  /\ showGlobe3D
  /\ ~isDark
  /\ exported # << >>
  /\ stats.total = 0

(***************************************************************************)
(* C13: during the load every row that does not parse into a well-formed   *)
(* record (a fully empty line, the empty line after a trailing newline)    *)
(* is dropped without aborting the load: the record store holds exactly    *)
(* the well-formed rows, in file order.                                    *)
(***************************************************************************)
\* the record of a line that has one field for every name of the header
C13_Record(fields, line) ==
  [f \in {fields[j] : j \in 1..Len(fields)} |->
     line[CHOOSE j \in 1..Len(fields) : fields[j] = f]]

\* the records of the well-formed lines of a text, in file order
C13_WellFormedRows(text) ==
  IF Len(text) <= 1 THEN << >>
  ELSE LET wellFormed(line) == Len(line) = Len(text[1])
           lines == SelectSeq(Tail(text), wellFormed)
       IN  [i \in 1..Len(lines) |-> C13_Record(text[1], lines[i])]

C13_MalformedRowsDropped ==
  csvText # << >> => data = C13_WellFormedRows(csvText[1])

(***************************************************************************)
(* C14: the record store has exactly one writer, the initial load: over    *)
(* any sequence of events (route selection, trip-type selection, theme     *)
(* toggle, 2D/3D toggle, export) the store is written at most once, from   *)
(* the empty sequence to the parsed sequence, it never changes once the    *)
(* loading flag is false, and no computation of a facet, of the filtered   *)
(* set, of the stats or of an aggregate changes it.                        *)
(***************************************************************************)
\* a step that changes the store is the step in which the text of the
\* response resolves, and it takes the store from empty to the parsed text
C14_WriteIsTheLoad ==
  data' # data =>
    /\ data = << >>
    /\ fetchState = "fulfilled"
    /\ fetchState' = "resolved"
    /\ csvText' # << >>
    /\ data' = PapaParse(csvText'[1])

C14_SingleWriter ==
  [][ /\ C14_WriteIsTheLoad
      /\ fetchState # "pending" => fetchState' # "pending"
      /\ ~loading => data' = data ]_vars

\* a loaded store after the load has settled and every kind of event has happened
C14_Witness ==
  /\ Len(data) = 2
  /\ ~loading
  /\ selectedRoute # ""
  /\ selectedTripType # ""
  /\ ~isDark
  /\ showGlobe3D
  /\ exported # << >>

(***************************************************************************)
(* C15: the filtered set, the stats and the four aggregates depend only on *)
(* the record store and the filter selection: whenever a selection is      *)
(* applied, also for a second time after other selections, theme toggles,  *)
(* 2D/3D toggles and exports, they are what this selection yields on this  *)
(* store.                                                                  *)
(***************************************************************************)
C15_DependOnStoreAndSelection ==
  LET rows == FilteredData(data, selectedRoute, selectedTripType)
  IN  /\ filteredData = rows
      /\ stats = Stats(rows)
      /\ byCompletion = ByCompletion(rows)
      /\ byTripType = ByTripType(rows)
      /\ topRoutes = TopRoutes(rows)
      /\ avgLeadByRoute = AvgLeadByRoute(rows)

\* a selection in force after an export made under another selection, a
\* theme toggle and a view toggle
C15_Witness ==
  /\ selectedRoute = "AKLDEL"
  /\ selectedTripType = "RoundTrip"
  /\ filteredData # << >>
  /\ filteredData # data
  /\ exported # << >>
  /\ exported # << PapaUnparse(filteredData) >>
  /\ ~isDark
  /\ showGlobe3D

(***************************************************************************)
(* C16: exporting the currently filtered set with the export action and    *)
(* parsing the exported text with the parse used at load yields a record   *)
(* sequence of the same length with the same field values in the same      *)
(* order as the filtered set in memory, the empty filtered set included.   *)
(***************************************************************************)
C16_ExportRoundTrip ==
  [][ exported' # exported => FilterBoolean(PapaParse(exported'[1])) = filteredData ]_vars

(***************************************************************************)
(* C17: the theme survives a reload and nothing else does: if the theme    *)
(* shown before the reload is v and its save effect has run, then after    *)
(* the fresh mount, once both theme effects (load from storage, save to    *)
(* storage) have run in their order, isDark equals v and storage holds v;  *)
(* the filter selection and the 2D/3D flag are back at their initial       *)
(* values.  Every state of a mount is a state after its effects have run.  *)
(***************************************************************************)
\* the mount has just run its effects: nothing of the user has happened yet
C17_JustMounted == session > 0 /\ pendingTheme # "none"

C17_OthersAreReset ==
  C17_JustMounted => selectedRoute = "" /\ selectedTripType = "" /\ ~showGlobe3D

C17_ThemeAfterEffects ==
  /\ carried \in {"dark", "light"} => ThemeName(isDark) = carried /\ storedTheme = carried
  /\ C17_OthersAreReset

\* the same once, beyond the two effects, the re-render for the setIsDark
\* of the load effect has committed and the save effect has run for it
C17_ThemeRestored ==
  /\ (carried \in {"dark", "light"} /\ ThemeIdle)
       => ThemeName(isDark) = carried /\ storedTheme = carried
  /\ C17_OthersAreReset

\* a reload that carried the light theme over, restored and saved again
C17_Witness ==
  /\ session = 1
  /\ carried = "light"
  /\ ThemeIdle
  /\ ~isDark
  /\ storedTheme = "light"

(***************************************************************************)
(* C18: toggling the theme, toggling the 2D/3D view and exporting each     *)
(* leave the record store and the filter selection unchanged, and so leave *)
(* the filtered set, the stats and the four aggregates unchanged; the      *)
(* filter selection changes only through a route or trip-type selection,   *)
(* and the completion of the data load does not change it.                 *)
(***************************************************************************)
\* a step of the theme (its toggle, its effects), of the view toggle or of export
C18_ThemeViewOrExportStep ==
  \/ isDark' # isDark
  \/ storedTheme' # storedTheme
  \/ showGlobe3D' # showGlobe3D
  \/ exported' # exported

\* a step of the load
C18_LoadStep == fetchState' # fetchState \/ loading' # loading \/ data' # data

\* a step in which the user picks an option of one of the two selects
C18_SelectionStep ==
  /\ \/ /\ selectedRoute' \in {""} \cup {routes[i] : i \in 1..Len(routes)}
        /\ selectedTripType' = selectedTripType
     \/ /\ selectedTripType' \in {""} \cup {tripTypes[i] : i \in 1..Len(tripTypes)}
        /\ selectedRoute' = selectedRoute
  /\ UNCHANGED << loadVars, themeVars, showGlobe3D, exported >>

C18_Frame ==
  [][ /\ C18_ThemeViewOrExportStep =>
           UNCHANGED << data, selectedRoute, selectedTripType, filteredData, stats,
                        byCompletion, byTripType, topRoutes, avgLeadByRoute >>
      /\ C18_LoadStep => UNCHANGED << selectedRoute, selectedTripType >>
      /\ << selectedRoute, selectedTripType >>' # << selectedRoute, selectedTripType >>
           => C18_SelectionStep ]_vars

\* theme, view and export have all acted under a selection in force
C18_Witness ==
  /\ selectedRoute = "SYDBKK"
  /\ selectedTripType = "OneWay"
  /\ filteredData = << C13_Record(CsvHeader, CsvLine2) >>
  /\ exported = << << CsvHeader, CsvLine2 >> >>
  /\ ~isDark
  /\ storedTheme = "light"
  /\ showGlobe3D

(***************************************************************************)
(* C19: getRouteName returns the mapped "Origin -> Destination" name for   *)
(* every route code of the static table and returns the code unchanged for *)
(* every code that is not in the table; it never fails, and each route     *)
(* entry of Top routes and of Average lead is the getRouteName of its      *)
(* group key.                                                              *)
(***************************************************************************)
\* the name the table gives a group key, the key itself without one
C19_NameOf(c) ==
  IF \E i \in 1..Len(RouteCodes) : RouteCodes[i] = c
  THEN RouteDisplay[CHOOSE i \in 1..Len(RouteCodes) : RouteCodes[i] = c]
  ELSE c

C19_RouteNames ==
  LET cats == Categories(RouteCategories)
      size(c) == Cardinality(Members(RouteCategories, c))
      stored == {data[i].route : i \in {j \in 1..Len(data) : Has(data[j], "route")}}
  IN  /\ \A i \in 1..Len(RouteCodes) : getRouteName(RouteCodes[i]) = RouteDisplay[i]
      /\ \A c \in (stored \cup {"Unknown"}) \ {RouteCodes[i] : i \in 1..Len(RouteCodes)} :
           getRouteName(c) = c
      /\ \A k \in 1..Len(topRoutes) :
           \E c \in cats : /\ topRoutes[k].route = C19_NameOf(c)
                           /\ topRoutes[k].count = size(c)
      /\ \A k \in 1..Len(avgLeadByRoute) :
           k <= Cardinality(cats)
           /\ avgLeadByRoute[k].route = C19_NameOf(KthCategory(RouteCategories, k))

\* a mapped code, a code outside the table and the group of a missing route
C19_Witness ==
  /\ filteredData = << Row3, OddRow, EmptyLineRow >>
  /\ topRoutes = << [route |-> "Sydney -> Bangkok", count |-> 1],
                    [route |-> "XXXYYY", count |-> 1],
                    [route |-> "Unknown", count |-> 1] >>
  /\ avgLeadByRoute[2].route = "XXXYYY"

(***************************************************************************)
(* C20: the loading flag is true in every state in which the fetch has not *)
(* settled; it becomes false exactly once after the fetch has settled, on  *)
(* the success path and on the failure path alike, and is never true       *)
(* again; on the success path the store is written before the flag becomes *)
(* false, so no state has loading = false with the fetch succeeded and the *)
(* store not yet written.                                                  *)
(***************************************************************************)
\* the promise chain has run through its then-callbacks or its catch
C20_ChainSettled == fetchState \in {"resolved", "rejected"}

C20_FlagWhileLoading ==
  /\ fetchState \in {"pending", "fulfilled"} => loading
  /\ ~loading =>
       /\ fetchState = "settled"
       /\ errorLogged \/ (csvText # << >> /\ data = PapaParse(csvText[1]))

C20_LoadingFlag ==
  /\ []C20_FlagWhileLoading
  /\ [][ /\ ~loading => ~loading'
         /\ (loading /\ ~loading') => C20_ChainSettled ]_vars
  /\ C20_ChainSettled ~> ~loading

\* the flag is down after a load that succeeded and wrote two rows
C20_Witness ==
  /\ ~loading
  /\ ~errorLogged
  /\ fetchState = "settled"
  /\ Len(data) = 2

(***************************************************************************)
(* C21: in every reachable state each component of the filter selection is *)
(* empty or a member of the current facet list (selectedRoute among the    *)
(* routes of the store, selectedTripType among its trip types); before the *)
(* store is loaded only the empty selection is possible, and a selection   *)
(* with exactly one non-empty component yields a non-empty filtered set.   *)
(***************************************************************************)
\* v is the value of field f in some record of the store
C21_Held(f, v) == \E i \in 1..Len(data) : Has(data[i], f) /\ data[i][f] = v

C21_SelectionInFacets ==
  /\ selectedRoute = ""
       \/ /\ \E i \in 1..Len(routes) : routes[i] = selectedRoute
          /\ C21_Held("route", selectedRoute)
  /\ selectedTripType = ""
       \/ /\ \E i \in 1..Len(tripTypes) : tripTypes[i] = selectedTripType
          /\ C21_Held("trip_type", selectedTripType)
  /\ fetchState \in {"pending", "fulfilled", "rejected"}
       => selectedRoute = "" /\ selectedTripType = ""
  /\ (selectedRoute = "") # (selectedTripType = "") => filteredData # << >>

\* one component selected: a proper, non-empty part of the store passes
C21_Witness ==
  /\ selectedRoute = ""
  /\ selectedTripType = "OneWay"
  /\ Len(data) = 3
  /\ Len(filteredData) = 1

(***************************************************************************)
(* C22: for every filtered sequence the "Active Routes" stat               *)
(* (stats.uniqueRoutes) equals the number of route groups the aggregation  *)
(* and map layers build from the same filtered set, that is the number of  *)
(* distinct values of route with missing and empty routes counted as the   *)
(* single group "Unknown".                                                 *)
(***************************************************************************)
C22_ActiveRoutesAreGroups ==
  /\ Len(RouteGroups(filteredData)) = Cardinality(Categories(RouteCategories))
  /\ stats.uniqueRoutes = Cardinality(Categories(RouteCategories))

====
